---- MODULE Spec2Model ----
(***************************************************************************)
(* Model of qerr/capture_qerr.py: the configuration handshake of start()   *)
(* (poll_config, set_config, poll_config, verify_dataflow) followed by the *)
(* collect_data loop that pairs TIM-TP and NAV-TIMEUTC packets, and the    *)
(* try/except/finally of start() that saves the three dataframes.          *)
(***************************************************************************)
EXTENDS Integers, Sequences, FiniteSets, TLC

VARIABLES
    pc,               \* position of the single thread inside start()
    exc,              \* exception propagating out of start(), "none" if none
    phases,           \* history: handshake calls of start() completed so far
    i,                \* verify_dataflow: read attempts made so far
    packet_id_flags,  \* verify_dataflow: identity -> seen
    observed,         \* history: identities the reader returned in verify_dataflow
    created,          \* df_refs exists (lines 174-178 have run)
    schema,           \* df_refs['MERGED'].columns
    packet_cache,     \* collect_data: identity -> [valid, timestamp, parsed_data]
    df_refs,          \* table name -> sequence of rows
    fed,              \* history: identity and arrival time of the k-th TIM-TP/NAV-TIMEUTC packet read by collect_data
    discarded,        \* history: packets whose cache entry was overwritten while still valid
    cancelled_at,     \* pc at which KeyboardInterrupt was raised inside the try, "none" if not
    saved,            \* table name -> rows handed to save_data; empty before the finally block
    last_read         \* collect_data: what the last ubr.read() returned as parsed_data

vars == <<pc, exc, phases, i, packet_id_flags, observed, created, schema,
          packet_cache, df_refs, fed, discarded, cancelled_at, saved, last_read>>

-----------------------------------------------------------------------------
(* Bounds of the model. *)

\* Number of TIM-TP / NAV-TIMEUTC packets one run of collect_data reads.
MaxMsgs == 3

(* Program constants. *)

\* range(1000) of verify_dataflow.
MaxAttempts == 1000
\* 1e6 of "time_diff.seconds * 1e6" and of "microsec_time_diff < 1e6".
UsPerSec == 1000000
\* timedelta normalises seconds into 0..86399 and carries the rest into days.
SecPerDay == 86400

NAV == "NAV-TIMEUTC"
TIM == "TIM-TP"
MERGED == "MERGED"
Identities == {NAV, TIM}
TableNames == {NAV, TIM, MERGED}

-----------------------------------------------------------------------------
(* datetime and timedelta, as the standard library computes them.  A       *)
(* datetime is [day, second, microsecond] (day number, second of the day), *)
(* a timedelta is the normalised [days, seconds, microseconds] with        *)
(* 0 <= seconds < 86400 and 0 <= microseconds < 10^6; days may be negative.*)

Timedelta(d, s, us) ==
    LET s2 == s + (us \div UsPerSec)
    IN  [days         |-> d + (s2 \div SecPerDay),
         seconds      |-> s2 % SecPerDay,
         microseconds |-> us % UsPerSec]

\* datetime.__sub__
DtSub(a, b) ==
    Timedelta(a.day - b.day, a.second - b.second, a.microsecond - b.microsecond)

\* timedelta.__neg__
TdNeg(td) == Timedelta(-td.days, -td.seconds, -td.microseconds)

\* timedelta.__abs__
TdAbs(td) == IF td.days < 0 THEN TdNeg(td) ELSE td

\* datetime.__lt__
DtLess(a, b) ==
    \/ a.day < b.day
    \/ a.day = b.day /\ a.second < b.second
    \/ a.day = b.day /\ a.second = b.second /\ a.microsecond < b.microsecond

\* Arrival times datetime.now() may return: around the one-second window
\* (0, 999999 us, exactly 1 s) on two consecutive days.
Times ==
    { [day |-> d, second |-> p[1], microsecond |-> p[2]] :
        d \in {0, 1}, p \in {<<0, 0>>, <<0, 999999>>, <<1, 0>>} }

NoTime == [day |-> 0, second |-> 0, microsecond |-> 0]

-----------------------------------------------------------------------------
(* Packets and rows. *)

TimTpKeys ==
    {"pkt_unix_timestamp_TIM-TP", "towMS (ms)", "towSubMS", "qErr (ps)",
     "week (weeks)", "timeBase_flag", "utc_flag", "raim_flag",
     "qErrInvalid_flag", "timeRefGnss", "utcStandard_TIM-TP"}

NavUtcKeys ==
    {"pkt_unix_timestamp_NAV-TIMEUTC", "iTOW (ms)", "tAcc (ns)", "year",
     "month", "day", "hour", "min", "sec", "validTOW_flag", "validWKN_flag",
     "validUTC_flag", "utcStandard_NAV-TIMEUTC"}

\* What ubr.read() hands back as parsed_data: None (timeout, undecodable
\* frame) or a message with an identity.  All attributes of the k-th packet
\* of interest carry the value k, so that rows name the packet they hold.
OtherId == "OTHER"
ReadResults == {"None", OtherId, NAV, TIM}

\* Lines 89-103.
NavUtcData(pkt_unix_timestamp, k) ==
    [key \in NavUtcKeys |->
        IF key = "pkt_unix_timestamp_NAV-TIMEUTC" THEN pkt_unix_timestamp ELSE k]

\* Lines 108-120.
TimTpData(pkt_unix_timestamp, k) ==
    [key \in TimTpKeys |->
        IF key = "pkt_unix_timestamp_TIM-TP" THEN pkt_unix_timestamp ELSE k]

ParsedData(identity, pkt_unix_timestamp, k) ==
    IF identity = NAV THEN NavUtcData(pkt_unix_timestamp, k)
                      ELSE TimTpData(pkt_unix_timestamp, k)

\* None as the initial 'timestamp' and 'parsed_data' of a cache entry.
NoneData == [key \in {} |-> 0]

EmptyCacheEntry == [valid |-> FALSE, timestamp |-> NoTime, parsed_data |-> NoneData]

\* The columns create_empty_df('MERGED') may declare: the union of the two
\* packets' keys, that union short of one column, that union with the merged
\* timestamp column of the commented-out line 133.
MergedSchemas ==
    { TimTpKeys \cup NavUtcKeys,
      (TimTpKeys \cup NavUtcKeys) \ {"qErr (ps)"},
      TimTpKeys \cup NavUtcKeys \cup {"pkt_unix_timestamp"} }

EmptyTables == [t \in TableNames |-> << >>]

-----------------------------------------------------------------------------
Init ==
    /\ pc = "poll_initial"
    /\ exc = "none"
    /\ phases = << >>
    /\ i = 0
    /\ packet_id_flags = [id \in Identities |-> FALSE]
    /\ observed = {}
    /\ created = FALSE
    /\ schema = {}
    /\ packet_cache = [id \in Identities |-> EmptyCacheEntry]
    /\ df_refs = EmptyTables
    /\ fed = << >>
    /\ discarded = {}
    /\ cancelled_at = "none"
    /\ saved = [t \in {} |-> << >>]
    /\ last_read = "unread"

HandshakeVars == <<i, packet_id_flags, observed>>
EngineVars == <<created, schema, packet_cache, df_refs, fed, discarded, cancelled_at, saved,
                last_read>>

\* An exception leaving start() before the try block: the process ends.
Propagate(e) ==
    /\ pc' = "exit"
    /\ exc' = e

-----------------------------------------------------------------------------
(* The handshake of start(), lines 169-172. *)

\* poll_config: write the poll, read one response, print it if there is one.
\* Opening or using the serial port may raise.
poll_config(here, next, phase) ==
    /\ pc = here
    /\ \E outcome \in {"parsed", "None", "raise"} :
          IF outcome = "raise"
          THEN Propagate("SerialException") /\ UNCHANGED phases
          ELSE /\ pc' = next
               /\ phases' = Append(phases, phase)
               /\ UNCHANGED exc
    /\ UNCHANGED <<HandshakeVars, EngineVars>>

\* set_config: write the set command, read three responses.
set_config(here, next, phase) ==
    /\ pc = here
    /\ \E outcome \in {"done", "raise"} :
          IF outcome = "raise"
          THEN Propagate("SerialException") /\ UNCHANGED phases
          ELSE /\ pc' = next
               /\ phases' = Append(phases, phase)
               /\ UNCHANGED exc
    /\ UNCHANGED <<HandshakeVars, EngineVars>>

PollInitial == poll_config("poll_initial", "configure", "PollInitial")
\* Mutant of Configure: start() goes from set_config straight to verify_dataflow.
Configure_SkipsPollVerify == set_config("configure", "verify", "Configure")

Configure == set_config("configure", "poll_verify", "Configure")
PollVerify == poll_config("poll_verify", "verify", "PollVerify")

\* Mutant of UpdateFlags: the identity test of line 55 is missing, any parsed
\* packet sets every flag.
UpdateFlags_AnyPacket(flags, parsed_data) ==
    IF parsed_data # "None"
    THEN [packet_id \in DOMAIN flags |-> TRUE]
    ELSE flags

\* Lines 53-56: the flags after one read.
UpdateFlags(flags, parsed_data) ==
    IF parsed_data # "None"
    THEN [packet_id \in DOMAIN flags |->
             IF parsed_data = packet_id THEN TRUE ELSE flags[packet_id]]
    ELSE flags

\* Mutant of All: any() in place of all().
All_Any(flags) == \E packet_id \in DOMAIN flags : flags[packet_id]

\* all(packet_id_flags.values())
All(flags) == \A packet_id \in DOMAIN flags : flags[packet_id]

\* One iteration of the for loop of verify_dataflow; the iteration that
\* exhausts range(1000) without both flags set falls through to the raise
\* of line 59.
verify_dataflow ==
    /\ pc = "verify"
    /\ i < MaxAttempts
    /\ \/ /\ Propagate("SerialException")
          /\ UNCHANGED <<phases, HandshakeVars>>
       \/ \E parsed_data \in ReadResults :
            LET flags == UpdateFlags(packet_id_flags, parsed_data) IN
            /\ i' = i + 1
            /\ packet_id_flags' = flags
            /\ observed' = observed \cup ({parsed_data} \cap Identities)
            /\ IF All(flags)
               THEN /\ pc' = "create_df"
                    /\ phases' = Append(phases, "VerifyDataflow")
                    /\ UNCHANGED exc
               ELSE IF i + 1 = MaxAttempts
               THEN /\ Propagate("Exception")
                    /\ phases' = Append(phases, "VerifyDataflow")
               ELSE UNCHANGED <<pc, exc, phases>>
    /\ UNCHANGED EngineVars

\* Lines 174-185: the three empty dataframes and the experiment directory.
\* The loop counter of verify_dataflow is a local of a call that has
\* returned: it is gone (0 here) from now on.
create_df ==
    /\ pc = "create_df"
    /\ created' = TRUE
    /\ schema' \in MergedSchemas
    /\ df_refs' = EmptyTables
    /\ i' = 0
    /\ pc' = "read"
    /\ UNCHANGED <<exc, phases, packet_id_flags, observed, packet_cache, fed, discarded,
                   cancelled_at, saved, last_read>>

-----------------------------------------------------------------------------
(* collect_data, lines 79-165. *)

\* The packet a per-channel row or cache entry holds (every attribute of
\* the k-th packet is k).
PacketOf(identity, row) ==
    IF identity = NAV THEN row["iTOW (ms)"] ELSE row["towMS (ms)"]

\* Mutant of UpdateCache: a valid entry is kept, the newer packet is dropped.
UpdateCache_KeepOld(cache, parsed_data, pkt_unix_timestamp, k) ==
    IF parsed_data \in Identities /\ ~cache[parsed_data].valid
    THEN [cache EXCEPT ![parsed_data] =
             [valid       |-> TRUE,
              timestamp   |-> pkt_unix_timestamp,
              parsed_data |-> ParsedData(parsed_data, pkt_unix_timestamp, k)]]
    ELSE cache

\* Mutant of UpdateCache: the elif of line 104 is an else, every parsed packet
\* that is not NAV-TIMEUTC is cached as TIM-TP.
UpdateCache_ElseTimTp(cache, parsed_data, pkt_unix_timestamp, k) ==
    IF parsed_data # "None"
    THEN LET id == IF parsed_data = NAV THEN NAV ELSE TIM IN
         [cache EXCEPT ![id] =
             [valid       |-> TRUE,
              timestamp   |-> pkt_unix_timestamp,
              parsed_data |-> ParsedData(id, pkt_unix_timestamp, k)]]
    ELSE cache

\* Lines 84-120: a packet of interest overwrites its cache entry.
UpdateCache(cache, parsed_data, pkt_unix_timestamp, k) ==
    IF parsed_data \in Identities
    THEN [cache EXCEPT ![parsed_data] =
             [valid       |-> TRUE,
              timestamp   |-> pkt_unix_timestamp,
              parsed_data |-> ParsedData(parsed_data, pkt_unix_timestamp, k)]]
    ELSE cache

\* Line 125.
time_diff(cache) == TdAbs(DtSub(cache[TIM].timestamp, cache[NAV].timestamp))

\* Line 126: time_diff.seconds * 1e6 + time_diff.microseconds.  The number is
\* below 86400 * 10^6 and is held as its two base-10^6 digits
\* <<seconds, microseconds>>, microseconds being below 10^6.
microsec_time_diff(td) == <<td.seconds, td.microseconds>>

\* Line 127: microsec_time_diff < 1e6, 1e6 being the digits <<1, 0>>.
LessThan1e6(x) == x[1] < 1 \/ (x[1] = 1 /\ x[2] < 0)

\* Lines 129-132: {**TIM-TP, **NAV-TIMEUTC}; the right operand wins a shared key.
merged_data(cache) ==
    LET a == cache[TIM].parsed_data
        b == cache[NAV].parsed_data
    IN  [key \in DOMAIN a \cup DOMAIN b |-> IF key \in DOMAIN b THEN b[key] ELSE a[key]]

\* Mutant of SchemaMatches: only keys missing from the schema are refused.
SchemaMatches_Subset(merged_keys, schema_keys) == merged_keys \subseteq schema_keys

\* Line 137, negated: the merged keys are the schema's.
SchemaMatches(merged_keys, schema_keys) == merged_keys = schema_keys

\* df.loc[len(df)] = row
AppendRow(refs, table, row) == [refs EXCEPT ![table] = Append(@, row)]

\* Mutant of EarlierChannel: the comparison of line 160 is turned round.
EarlierChannel_Reversed(cache) ==
    IF DtLess(cache[NAV].timestamp, cache[TIM].timestamp) THEN TIM ELSE NAV

\* Line 160: the channel whose packet is dropped from the merge.
EarlierChannel(cache) ==
    IF DtLess(cache[TIM].timestamp, cache[NAV].timestamp) THEN TIM ELSE NAV

\* Mutant of Process: lines 162 and 165 are missing, the packet saved alone
\* stays valid in the cache.
Process_FallbackKeepsValid(cache) ==
    IF cache[TIM].valid /\ cache[NAV].valid
    THEN IF LessThan1e6(microsec_time_diff(time_diff(cache)))
         THEN IF ~SchemaMatches(DOMAIN merged_data(cache), schema)
              THEN /\ pc' = "finally"
                   /\ exc' = "KeyError"
                   /\ packet_cache' = cache
                   /\ UNCHANGED df_refs
              ELSE /\ pc' = "write_merged"
                   /\ packet_cache' = cache
                   /\ UNCHANGED <<exc, df_refs>>
         ELSE LET ch == EarlierChannel(cache) IN
              /\ df_refs' = AppendRow(df_refs, ch, cache[ch].parsed_data)
              /\ packet_cache' = cache
              /\ UNCHANGED <<pc, exc>>
    ELSE /\ packet_cache' = cache
         /\ UNCHANGED <<pc, exc, df_refs>>

\* Lines 122-165 up to the write transaction, on the cache as updated by the
\* read: the merge is decided (and its schema verified) or the earlier packet
\* is saved alone.
Process(cache) ==
    IF cache[TIM].valid /\ cache[NAV].valid
    THEN IF LessThan1e6(microsec_time_diff(time_diff(cache)))
         THEN IF ~SchemaMatches(DOMAIN merged_data(cache), schema)
              THEN /\ pc' = "finally"
                   /\ exc' = "KeyError"
                   /\ packet_cache' = cache
                   /\ UNCHANGED df_refs
              ELSE /\ pc' = "write_merged"
                   /\ packet_cache' = cache
                   /\ UNCHANGED <<exc, df_refs>>
         ELSE LET ch == EarlierChannel(cache) IN
              /\ df_refs' = AppendRow(df_refs, ch, cache[ch].parsed_data)
              /\ packet_cache' = [cache EXCEPT ![ch].valid = FALSE]
              /\ UNCHANGED <<pc, exc>>
    ELSE /\ packet_cache' = cache
         /\ UNCHANGED <<pc, exc, df_refs>>

\* One pass of the while loop from the blocking read of line 81 to the next
\* read, or to line 145 when a merge was decided.
Read ==
    /\ pc = "read"
    /\ \/ /\ pc' = "finally"
          /\ exc' = "SerialException"
          /\ UNCHANGED <<packet_cache, df_refs, fed, discarded, last_read>>
       \/ \E parsed_data \in ReadResults, pkt_unix_timestamp \in Times :
            /\ parsed_data \in Identities => Len(fed) < MaxMsgs
            /\ last_read' = parsed_data
            /\ fed' = IF parsed_data \in Identities
                      THEN Append(fed, [identity |-> parsed_data, timestamp |-> pkt_unix_timestamp])
                      ELSE fed
            /\ discarded' =
                 IF parsed_data \in Identities /\ packet_cache[parsed_data].valid
                 THEN discarded \cup {PacketOf(parsed_data, packet_cache[parsed_data].parsed_data)}
                 ELSE discarded
            /\ Process(UpdateCache(packet_cache, parsed_data, pkt_unix_timestamp, Len(fed) + 1))
    /\ UNCHANGED <<phases, HandshakeVars, created, schema, cancelled_at, saved>>

\* Line 145.
WriteMerged ==
    /\ pc = "write_merged"
    /\ df_refs' = AppendRow(df_refs, MERGED, merged_data(packet_cache))
    /\ pc' = "write_timtp"
    /\ UNCHANGED <<exc, phases, HandshakeVars, created, schema, packet_cache, fed,
                   discarded, cancelled_at, saved, last_read>>

\* Line 146.
WriteTimTp ==
    /\ pc = "write_timtp"
    /\ df_refs' = AppendRow(df_refs, TIM, packet_cache[TIM].parsed_data)
    /\ pc' = "write_navutc"
    /\ UNCHANGED <<exc, phases, HandshakeVars, created, schema, packet_cache, fed,
                   discarded, cancelled_at, saved, last_read>>

\* Mutant of WriteNavUtc: the cache reset of lines 150-151 is missing.
WriteNavUtc_NoReset ==
    /\ pc = "write_navutc"
    /\ df_refs' = AppendRow(df_refs, NAV, packet_cache[NAV].parsed_data)
    /\ pc' = "read"
    /\ UNCHANGED <<exc, phases, HandshakeVars, created, schema, packet_cache, fed,
                   discarded, cancelled_at, saved, last_read>>

\* Mutant of WriteNavUtc: line 151 is missing, only the TIM-TP entry is reset.
WriteNavUtc_ResetsTimOnly ==
    /\ pc = "write_navutc"
    /\ df_refs' = AppendRow(df_refs, NAV, packet_cache[NAV].parsed_data)
    /\ packet_cache' = [packet_cache EXCEPT ![TIM].valid = FALSE]
    /\ pc' = "read"
    /\ UNCHANGED <<exc, phases, HandshakeVars, created, schema, fed, discarded,
                   cancelled_at, saved, last_read>>

\* Lines 147-156: the last append, the cache reset and the progress line.
WriteNavUtc ==
    /\ pc = "write_navutc"
    /\ df_refs' = AppendRow(df_refs, NAV, packet_cache[NAV].parsed_data)
    /\ packet_cache' = [packet_cache EXCEPT ![TIM].valid = FALSE, ![NAV].valid = FALSE]
    /\ pc' = "read"
    /\ UNCHANGED <<exc, phases, HandshakeVars, created, schema, fed, discarded,
                   cancelled_at, saved, last_read>>

-----------------------------------------------------------------------------
(* KeyboardInterrupt and the try/except/finally of start(), lines 186-196. *)

HandshakePcs == {"poll_initial", "configure", "poll_verify", "verify", "create_df"}
CollectPcs == {"read", "write_merged", "write_timtp", "write_navutc"}

\* CTRL+C before the try block: nothing catches it.
InterruptHandshake ==
    /\ pc \in HandshakePcs
    /\ Propagate("KeyboardInterrupt")
    /\ UNCHANGED <<phases, HandshakeVars, EngineVars>>

\* CTRL+C inside collect_data: the interpreter raises KeyboardInterrupt in the
\* main thread wherever it is, blocked in the read or between two statements
\* of the write transaction; line 188 catches it.
Interrupt ==
    /\ pc \in CollectPcs
    /\ cancelled_at' = pc
    /\ pc' = "finally"
    /\ UNCHANGED <<exc, phases, HandshakeVars, created, schema, packet_cache,
                   df_refs, fed, discarded, saved, last_read>>

\* Mutant of Save: the save sits after the try statement instead of in a
\* finally block, so a propagating exception skips it.
Save_SkippedOnError ==
    /\ pc = "finally"
    /\ saved' = IF exc = "none" THEN df_refs ELSE saved
    /\ pc' = "exit"
    /\ UNCHANGED <<exc, phases, HandshakeVars, created, schema, packet_cache,
                   df_refs, fed, discarded, cancelled_at, last_read>>

\* Lines 191-196: every dataframe of df_refs goes to save_data; an exception
\* other than KeyboardInterrupt goes on propagating afterwards.
Save ==
    /\ pc = "finally"
    /\ saved' = df_refs
    /\ pc' = "exit"
    /\ UNCHANGED <<exc, phases, HandshakeVars, created, schema, packet_cache,
                   df_refs, fed, discarded, cancelled_at, last_read>>

Next ==
    \/ PollInitial
    \/ Configure
    \/ PollVerify
    \/ verify_dataflow
    \/ create_df
    \/ Read
    \/ WriteMerged
    \/ WriteTimTp
    \/ WriteNavUtc
    \/ InterruptHandshake
    \/ Interrupt
    \/ Save

Spec == Init /\ [][Next]_vars

-----------------------------------------------------------------------------
(* Vocabulary of the properties. *)

Other(identity) == IF identity = TIM THEN NAV ELSE TIM

\* Rows of table t of refs that hold packet k of channel identity.
RowsHolding(refs, t, identity, k) ==
    {j \in 1..Len(refs[t]) : PacketOf(identity, refs[t][j]) = k}

MergedCount(refs, k) == Cardinality(RowsHolding(refs, MERGED, fed[k].identity, k))
ChannelCount(refs, k) == Cardinality(RowsHolding(refs, fed[k].identity, fed[k].identity, k))

\* Packet k is the valid content of its channel's cache entry.
Pending(k) ==
    /\ packet_cache[fed[k].identity].valid
    /\ PacketOf(fed[k].identity, packet_cache[fed[k].identity].parsed_data) = k

\* The true distance of the two cached arrival times is below one second.
WithinOneSecond(cache) ==
    LET td == TdAbs(DtSub(cache[TIM].timestamp, cache[NAV].timestamp))
    IN  td.days = 0 /\ td.seconds = 0

\* The collect_data pass that has just read packet Len(fed') found the other
\* channel's entry valid, so that both entries were valid at line 123.
BothOccupiedStep ==
    /\ pc = "read"
    /\ Len(fed') = Len(fed) + 1
    /\ packet_cache[Other(fed'[Len(fed')].identity)].valid

Cancelled == pc = "exit" /\ cancelled_at # "none"

-----------------------------------------------------------------------------
\* C1: whenever a pass of collect_data finds both cache entries valid, a row
\* goes to MERGED if and only if the true absolute difference of the two
\* arrival times is below 1,000,000 microseconds (days included).  The schema
\* error of C5 aside, the pass either decides the merge or saves the earlier
\* packet alone.
C1_MergeIffWithinOneSecond ==
    [][BothOccupiedStep =>
          /\ pc' = "write_merged" => WithinOneSecond(packet_cache')
          /\ (pc' = "read" /\ df_refs' # df_refs) => ~WithinOneSecond(packet_cache')]_vars

-----------------------------------------------------------------------------
\* Where packet k is: still valid in the cache, overwritten in the cache,
\* in its own table alone, in a MERGED row.
Places(k) ==
    {p \in {"pending", "discarded", "fallback", "merged"} :
        \/ p = "pending" /\ Pending(k)
        \/ p = "discarded" /\ k \in discarded
        \/ p = "fallback" /\ ChannelCount(df_refs, k) >= 1 /\ MergedCount(df_refs, k) = 0
        \/ p = "merged" /\ MergedCount(df_refs, k) >= 1}

\* C2 as stated: whenever the loop is back at its read, no packet is both in
\* a MERGED row and a row of its own table (a merged pair leaves 1 MERGED row
\* and 0 per-channel rows).
C2_NeverMergedAndChannelRow ==
    pc = "read" =>
        \A k \in 1..Len(fed) :
            ~(MergedCount(df_refs, k) >= 1 /\ ChannelCount(df_refs, k) >= 1)

\* C2 amended: whenever the loop is back at its read, every packet fed is in
\* exactly one place: still pending in the cache, or discarded by an
\* overwrite, or in one row of its own table alone, or merged, and a merged
\* packet is in exactly one MERGED row and in exactly one row of its own table.
C2_ExactlyOnePlace ==
    pc = "read" =>
        \A k \in 1..Len(fed) :
            /\ Cardinality(Places(k)) = 1
            /\ MergedCount(df_refs, k) <= 1
            /\ ChannelCount(df_refs, k) <= 1
            /\ MergedCount(df_refs, k) = 1 => ChannelCount(df_refs, k) = 1

\* C2 witness: back at the read with a merged pair standing in MERGED and in
\* both per-channel tables, after an overwrite discarded an earlier packet.
C2_Witness ==
    /\ pc = "read"
    /\ Len(df_refs[MERGED]) = 1
    /\ Len(df_refs[TIM]) = 1
    /\ Len(df_refs[NAV]) = 1
    /\ discarded # {}

\* C3: after a cancellation observed at the blocking read, every valid cache
\* entry is a row of its own table among the saved tables.
C3_PendingFlushedOnCancel ==
    (pc = "exit" /\ cancelled_at = "read") =>
        \A id \in Identities :
            packet_cache[id].valid =>
                \E j \in 1..Len(saved[id]) : saved[id][j] = packet_cache[id].parsed_data

\* C4: in the tables saved after a cancellation, every MERGED row has its
\* TIM-TP row and its NAV-TIMEUTC row in the per-channel tables.
C4_PersistedMergeIsWhole ==
    Cancelled =>
        \A j \in 1..Len(saved[MERGED]) : \A id \in Identities :
            \E r \in 1..Len(saved[id]) :
                PacketOf(id, saved[id][r]) = PacketOf(id, saved[MERGED][j])

\* C5: every row of MERGED has exactly the keys of the MERGED schema; a pass
\* goes on to the write transaction only with merged keys equal to the
\* schema; and the pass that raises KeyError does so on a key set that
\* differs from the schema and appends to none of the three tables.
C5_MergedRowsMatchSchema ==
    /\ [](\A j \in 1..Len(df_refs[MERGED]) : DOMAIN df_refs[MERGED][j] = schema)
    /\ [][/\ pc' = "write_merged" => DOMAIN merged_data(packet_cache') = schema
          /\ (exc = "none" /\ exc' = "KeyError") =>
                /\ BothOccupiedStep
                /\ DOMAIN merged_data(packet_cache') # schema
                /\ df_refs' = df_refs]_vars
    /\ [][(BothOccupiedStep /\ DOMAIN merged_data(packet_cache') # schema
              /\ LessThan1e6(microsec_time_diff(time_diff(packet_cache'))))
            => (exc' = "KeyError" /\ df_refs' = df_refs)]_vars

\* C5 witness: the saved tables of a run that KeyError ended, the two
\* packets of the refused merge still in the cache and in no table.
C5_Witness ==
    /\ pc = "exit"
    /\ exc = "KeyError"
    /\ packet_cache[TIM].valid /\ packet_cache[NAV].valid
    /\ DOMAIN merged_data(packet_cache) # schema
    /\ saved[MERGED] = << >>

-----------------------------------------------------------------------------
\* verify_dataflow has raised the exception of line 59.
Failed == pc = "exit" /\ exc = "Exception"

\* verify_dataflow has returned or raised its own exception.
VerifyEnded == Len(phases) = 4

\* C6: verify_dataflow never reads more than 1000 times; it ends Failed
\* exactly when the reader never returned one of TIM-TP, NAV-TIMEUTC in its
\* 1000 reads; the flags of the diagnostic are False for exactly the
\* identities never returned; and in Failed no dataframe exists, collect_data
\* has read nothing and nothing was saved.
C6_FailedIffIdentityMissing ==
    /\ pc = "verify" => i < MaxAttempts
    /\ (i = MaxAttempts /\ observed # Identities) => Failed
    /\ VerifyEnded => (Failed <=> observed # Identities)
    /\ Failed =>
          /\ i = MaxAttempts
          /\ \A id \in Identities : packet_id_flags[id] <=> id \in observed
          /\ ~created
          /\ df_refs = EmptyTables
          /\ fed = << >>
          /\ DOMAIN saved = {}

\* C6 witness: the handshake scenario, TIM-TP seen and NAV-TIMEUTC never.
C6_Witness ==
    /\ Failed
    /\ observed = {TIM}
    /\ packet_id_flags[TIM] /\ ~packet_id_flags[NAV]

HandshakeOrder == <<"PollInitial", "Configure", "PollVerify", "VerifyDataflow">>

IsPrefix(s, t) == Len(s) <= Len(t) /\ \A j \in 1..Len(s) : s[j] = t[j]

PhaseRank(p) ==
    CASE p = "poll_initial" -> 1
      [] p = "configure"    -> 2
      [] p = "poll_verify"  -> 3
      [] p = "verify"       -> 4
      [] p = "create_df"    -> 5
      [] p \in CollectPcs   -> 6
      [] p = "finally"      -> 7
      [] p = "exit"         -> 8

\* C7: the handshake calls completed so far are always an initial part of
\* PollInitial, Configure, PollVerify, VerifyDataflow (none skipped, repeated
\* or out of order); the dataframes exist and collect_data runs only after
\* all four, with both identities seen; and start() never goes back to an
\* earlier phase.
C7_HandshakeBeforeCollection ==
    /\ [](/\ IsPrefix(phases, HandshakeOrder)
          /\ (created \/ pc \in CollectPcs) =>
                /\ phases = HandshakeOrder
                /\ All(packet_id_flags)
                /\ observed = Identities)
    /\ [][PhaseRank(pc') >= PhaseRank(pc)]_vars

\* C7 witness: collect_data has read a packet.
C7_Witness == pc \in CollectPcs /\ phases = HandshakeOrder /\ fed # << >>

\* The last packet of channel id read so far (0 if none).
LastOf(id) ==
    LET ks == {k \in 1..Len(fed) : fed[k].identity = id}
    IN  IF ks = {} THEN 0 ELSE CHOOSE k \in ks : \A m \in ks : m <= k

\* C8: a valid cache entry always holds the newest packet of its channel with
\* that packet's arrival time, and a packet overwritten in the cache is in no
\* table, not in the cache and in no saved table, ever after.
C8_OverwriteKeepsNewest ==
    /\ \A id \in Identities :
          packet_cache[id].valid =>
              LET k == LastOf(id) IN
              /\ k # 0
              /\ packet_cache[id].timestamp = fed[k].timestamp
              /\ packet_cache[id].parsed_data = ParsedData(id, fed[k].timestamp, k)
    /\ \A k \in discarded :
          /\ ~Pending(k)
          /\ MergedCount(df_refs, k) = 0
          /\ ChannelCount(df_refs, k) = 0
          /\ DOMAIN saved # {} => MergedCount(saved, k) = 0 /\ ChannelCount(saved, k) = 0

\* C8 witness: the tables of a run with an overwritten packet were saved
\* with a row of the overwritten packet's channel in them.
C8_Witness ==
    /\ pc = "exit"
    /\ \E k \in discarded : saved[fed[k].identity] # << >>

\* C10: a pass that finds both cache entries valid and their arrival times
\* one second or more apart appends exactly one row, the earlier packet, to
\* that packet's own table, clears that entry alone, leaves the other entry,
\* MERGED and the other table as they were, and goes back to the read (the
\* pass that raises the KeyError of C5 aside).
C10_WindowExceededSavesEarlier ==
    [][(BothOccupiedStep /\ exc' = "none") =>
          LET new == fed'[Len(fed')]
              cache == UpdateCache(packet_cache, new.identity, new.timestamp, Len(fed'))
              earlier == IF DtLess(cache[TIM].timestamp, cache[NAV].timestamp) THEN TIM ELSE NAV
          IN  ~WithinOneSecond(cache) =>
                /\ df_refs' = AppendRow(df_refs, earlier, cache[earlier].parsed_data)
                /\ ~packet_cache'[earlier].valid
                /\ packet_cache'[Other(earlier)] = cache[Other(earlier)]
                /\ pc' = "read"]_vars

-----------------------------------------------------------------------------
\* The tables of refs2 are those of refs1 with one row more in table t.
OneRowMore(refs1, refs2, t) ==
    /\ Len(refs2[t]) = Len(refs1[t]) + 1
    /\ \A u \in TableNames \ {t} : refs2[u] = refs1[u]

\* C11: the write transaction of a merge appends exactly one row to MERGED,
\* then exactly one to TIM-TP, then exactly one to NAV-TIMEUTC, and its last
\* statement leaves both cache entries invalid; no packet is ever in more
\* than one MERGED row or in more than one row of its own table; and
\* whenever the loop is back at its read every MERGED row has exactly one row
\* of each of its two packets in the per-channel tables, neither packet
\* being pending any more.
C11_MergeOncePerPair ==
    /\ [](\A k \in 1..Len(fed) :
             MergedCount(df_refs, k) <= 1 /\ ChannelCount(df_refs, k) <= 1)
    /\ [](pc = "read" =>
             \A j \in 1..Len(df_refs[MERGED]) : \A id \in Identities :
                 LET k == PacketOf(id, df_refs[MERGED][j]) IN
                 /\ k \in 1..Len(fed)
                 /\ fed[k].identity = id
                 /\ ChannelCount(df_refs, k) = 1
                 /\ ~Pending(k))
    /\ [][/\ (pc = "write_merged" /\ pc' = "write_timtp") => OneRowMore(df_refs, df_refs', MERGED)
          /\ (pc = "write_timtp" /\ pc' = "write_navutc") => OneRowMore(df_refs, df_refs', TIM)
          /\ (pc = "write_navutc" /\ pc' = "read") =>
                /\ OneRowMore(df_refs, df_refs', NAV)
                /\ ~packet_cache'[TIM].valid
                /\ ~packet_cache'[NAV].valid]_vars

\* C11 witness: a merge has just completed: one row in each table, both
\* cache entries invalid, the loop back at its read.
C11_Witness ==
    /\ pc = "read"
    /\ last_read \in Identities
    /\ Len(df_refs[MERGED]) = 1 /\ Len(df_refs[TIM]) = 1 /\ Len(df_refs[NAV]) = 1
    /\ ~packet_cache[TIM].valid /\ ~packet_cache[NAV].valid
    /\ Len(fed) = 2

-----------------------------------------------------------------------------
\* The pass of the loop that has just run got r from ubr.read() (and was
\* neither interrupted nor ended by a transport failure).
ReadReturned(r) ==
    /\ pc = "read"
    /\ last_read' = r
    /\ cancelled_at' = cancelled_at
    /\ exc' # "SerialException"

\* C12: a pass of the loop whose read returns None (timeout, undecodable
\* frame) or a packet that is neither TIM-TP nor NAV-TIMEUTC leaves the cache
\* and the three tables as they were, raises nothing, and ends back at the
\* read: it starts no merge and saves no pending packet.
C12_IgnoredReadChangesNothing ==
    [][(ReadReturned("None") \/ ReadReturned(OtherId)) =>
          /\ packet_cache' = packet_cache
          /\ df_refs' = df_refs
          /\ fed' = fed
          /\ discarded' = discarded
          /\ exc' = exc
          /\ pc' = "read"]_vars

\* C12 witness: a read has returned None while a TIM-TP packet was pending
\* and a row stood in a table.
C12_Witness ==
    /\ pc = "read"
    /\ last_read = "None"
    /\ packet_cache[TIM].valid
    /\ df_refs[NAV] # << >>

-----------------------------------------------------------------------------
\* verify_dataflow has returned True.
Ready == pc = "create_df" /\ phases = HandshakeOrder

\* C13: verify_dataflow reads only while fewer than 1000 reads were made and
\* one identity is still unseen; every read that nothing external cuts short
\* (transport failure, CTRL+C) counts one attempt and ends in Ready exactly
\* if both identities have been seen by then, whatever else was read before
\* and also on the 1000th read, in Failed if that was the 1000th read, and in
\* one more read otherwise.  The count of attempts only grows and stops at
\* 1000, so the loop ends.
C13_VerifyTerminates ==
    /\ [](i <= MaxAttempts)
    /\ [](pc = "verify" => (i < MaxAttempts /\ observed # Identities))
    /\ [][(pc = "verify" /\ exc' \notin {"SerialException", "KeyboardInterrupt"}) =>
             /\ i' = i + 1
             /\ observed' = Identities => Ready'
             /\ (observed' # Identities /\ i' = MaxAttempts) => Failed'
             /\ (observed' # Identities /\ i' < MaxAttempts) => pc' = "verify"]_vars

\* C13 witness: Ready reached on the last permitted attempt.
C13_Witness == Ready /\ i = MaxAttempts /\ observed = Identities

-----------------------------------------------------------------------------
\* C14: whatever the first poll_config meets (a response, none, a failing
\* request), start() goes on to set_config and no exception ends the run
\* there (CTRL+C aside).
C14_PollInitialNeverFatal ==
    [][(pc = "poll_initial" /\ exc' # "KeyboardInterrupt") =>
          (pc' = "configure" /\ exc' = "none")]_vars

\* C15: collect_data is left only for the finally block, with the tables as
\* they are; the finally block hands all three tables, every row appended so
\* far in them, to save_data and changes nothing about the exception; the
\* run then ends with the KeyError or the transport failure still
\* propagating, or with no exception if CTRL+C ended the loop.
C15_TablesSavedWhenLoopEnds ==
    /\ [][/\ (pc \in CollectPcs /\ pc' \notin CollectPcs) =>
                (pc' = "finally" /\ df_refs' = df_refs)
          /\ pc = "finally" => (pc' = "exit" /\ saved' = df_refs /\ exc' = exc)]_vars
    /\ []((pc \in {"finally", "exit"} /\ created) =>
             \/ cancelled_at # "none" /\ exc = "none"
             \/ cancelled_at = "none" /\ exc \in {"KeyError", "SerialException"})
    /\ []((pc = "exit" /\ created) =>
             (DOMAIN saved = TableNames /\ saved = df_refs))

\* C15 witness: a transport failure ended the loop after a merge, the
\* tables were saved with the merged row and the failure still propagates.
C15_Witness ==
    /\ pc = "exit"
    /\ exc = "SerialException"
    /\ DOMAIN saved = TableNames
    /\ saved[MERGED] # << >>
    /\ saved = df_refs

-----------------------------------------------------------------------------
BothValid == packet_cache[TIM].valid /\ packet_cache[NAV].valid

WritePcs == {"write_merged", "write_timtp", "write_navutc"}

\* C16: whenever the loop is at its blocking read at most one cache entry is
\* valid; both are valid only inside the write transaction of a merge, or
\* in the cache left behind by the KeyError or by a CTRL+C that cut the
\* transaction short.
C16_AtMostOnePendingAtRead ==
    /\ pc = "read" => ~BothValid
    /\ BothValid =>
          \/ pc \in WritePcs
          \/ pc \in {"finally", "exit"} /\ (exc = "KeyError" \/ cancelled_at \in WritePcs)

\* C16 witness: back at the read after a pass that found both entries valid
\* and saved one packet alone: one entry valid, the other not.
C16_Witness ==
    /\ pc = "read"
    /\ Len(fed) >= 2
    /\ df_refs[MERGED] = << >>
    /\ df_refs[TIM] # << >>
    /\ packet_cache[NAV].valid /\ ~packet_cache[TIM].valid

\* No arrival time is earlier than one before it.
Monotone(f) ==
    \A j, k \in 1..Len(f) : j < k => ~DtLess(f[k].timestamp, f[j].timestamp)

\* C17: with arrival times that never decrease, the pass that finds both
\* entries valid and saves one packet alone saves the packet that was pending
\* in the other channel and leaves the packet that has just arrived valid in
\* the cache.
C17_FallbackSavesOlderPending ==
    [][(BothOccupiedStep /\ Monotone(fed') /\ pc' = "read" /\ df_refs' # df_refs) =>
          LET new == fed'[Len(fed')].identity
              old == Other(new)
          IN  /\ df_refs' = AppendRow(df_refs, old, packet_cache[old].parsed_data)
              /\ ~packet_cache'[old].valid
              /\ packet_cache'[new].valid
              /\ PacketOf(new, packet_cache'[new].parsed_data) = Len(fed')]_vars

\* C17 witness: two packets of different channels arrived in time order more
\* than the window apart; the first stands alone in its table, the second is
\* pending.
C17_Witness ==
    /\ pc = "read"
    /\ Len(fed) = 2
    /\ Monotone(fed)
    /\ fed[1].identity # fed[2].identity
    /\ Len(df_refs[fed[1].identity]) = 1
    /\ PacketOf(fed[1].identity, df_refs[fed[1].identity][1]) = 1
    /\ Pending(2)

====
